---- MODULE Spec2Model ----
(***************************************************************************)
(* A model of rocket_utilize: the signed claims token (src/src/jwt.rs)     *)
(* the per-request template context pipeline (src/src/template.rs) and    *)
(* the JSON result values (src/src/errors.rs).                             *)
(*                                                                         *)
(* The parts share no state, so each has its own specification:           *)
(*   Spec     the template pipeline of one request,                       *)
(*   SpecJwt  the token lifecycle of one process and the tokens in flight, *)
(*   SpecExp  a token's construction, expiry against the clock and cookie,*)
(*   SpecRes  the construction of result values and their responses.      *)
(* A specification holds the other parts' variables at their initial      *)
(* values.                                                                *)
(***************************************************************************)
EXTENDS Integers, Sequences, FiniteSets, TLC

VARIABLES
    \* ---- jwt.rs ----
    now,        \* the wall clock (Utc::now()), in ticks of 1/Res second
    setCalls,   \* the secrets passed to JWTConfig::set_static, in call order
    tok,        \* the Jwt<T> value the application holds: None or Some(jwt)
    made,       \* how tok was constructed: the constructor, the duration d and,
                \* for new_with_exp, the instant due = t0 + d
    signed,     \* the token text in flight (a cookie at the client): None or Some
    op,         \* the most recent jwt.rs operation
    arg,        \* the argument of the most recent validate
    keyUsed,    \* the secret bytes the most recent sign/validate keyed the MAC with
    ret,        \* what the most recent operation returned
    \* ---- template.rs ----
    registry,   \* TemplateConfig.registry: the (provider type, name) pairs, in order
    attached,   \* on_request of the TemplateConfig is run on the requests of the rocket
    managed,    \* a tera::Tera is managed state of the rocket
    phase,      \* "build", "failed", "request" (the request fairings run) or
                \* "respond" (the response of the routed handler is responded)
    pcReq,      \* on_request: "idle", "guard", "await", "publish" or "done"
    idx,        \* on_request: the index in registry of the handler being run
    context,    \* on_request: its local `context`
    outs,       \* on_request: the outcome of req.guard of each handler run so far
    runs,       \* the number of on_request runs that reached req.local_cache
    handed,     \* the context the latest of them handed to req.local_cache
    handed1,    \* the context the first of them handed to req.local_cache
    cache,      \* the request-local cache slot of ArcSwapOption<tera::Context>:
                \* "uninit", or the cell holding "empty" (None) or "full" (the Arc)
    arc,        \* the Arc<tera::Context> on_request made: None, or its context and
                \* its strong count (0 once it was unwrapped or dropped)
    pc,         \* per respond_to call: "idle", "swap", "unwrap", "merge" or "done"
    tpl,        \* per respond_to call: self, the Template, once it was read
    order,      \* the respond_to calls that ran swap(None), in the order they ran it
    got,        \* per respond_to call: what swap(None) returned to it
    own,        \* per respond_to call: the context the drain gave it
    call,       \* per respond_to call: the path and context given to tera.render
    resp,       \* per respond_to call: the response::Result it returned
    \* ---- errors.rs ----
    by,         \* what made the ResultValue at hand: "none", a constructor or "literal"
    given,      \* the value and the status passed to the constructor
    built,      \* the ResultValue at hand: None or Some(value)
    answer      \* the response of its respond_to: None or Some(response)

jwtVars == <<now, setCalls, tok, made, signed, op, arg, keyUsed, ret>>

tplVars == <<registry, attached, managed, phase, pcReq, idx, context, outs, runs, handed, handed1,
             cache, arc, pc, tpl, order, got, own, call, resp>>

resVars == <<by, given, built, answer>>

vars == <<jwtVars, tplVars, resVars>>

(***************************************************************************)
(* Bounds of the model.                                                    *)
(***************************************************************************)
\* ticks per second: the clock and a Duration are finer than the i64 seconds of exp
Res == 2
\* the clock runs for MaxTicks ticks, before or after one sleep of Leeway seconds
MaxTicks == 3
\* new_with_exp durations are 0..MaxDur ticks
MaxDur == 3
\* at most MaxSetCalls calls of set_static per process
MaxSetCalls == 2
\* a registry holds at most MaxProviders providers
MaxProviders == 2
\* on_request is run at most MaxRuns times on the request
MaxRuns == 2
\* at most MaxRenderers calls of Template::respond_to on the request
MaxRenderers == 2

(***************************************************************************)
(* Option and Result.                                                      *)
(***************************************************************************)
None == <<>>
Some(x) == <<x>>
Ok(x) == [ok |-> TRUE, v |-> x]
Err(e) == [ok |-> FALSE, e |-> e]

(***************************************************************************)
(* jwt.rs                                                                  *)
(***************************************************************************)
\* the claims payloads T of the model
Claims == {"alice", "bob"}
\* a claims payload whose Serialize fails
BadClaims == "unserializable"
\* the claims payloads T a token is constructed with
Payloads == Claims \cup {BadClaims}
\* the secrets an application configures; DefaultSecret is String::default()
Secrets == {"s1", "s2"}
DefaultSecret == ""

\* An i64 second count is the pair hi * 10^6 + lo: TLC's integers are 32 bits
\* wide and the sentinel of Jwt::new is not.  Every second count the clock of
\* the model produces has hi = 0.
I64(n) == [hi |-> 0, lo |-> n]
Lt(a, b) == a.hi < b.hi \/ (a.hi = b.hi /\ a.lo < b.lo)
Gt(a, b) == Lt(b, a)

\* 4856112000, the exp of Jwt::new
SentinelHi == 4856
SentinelLo == 112000
Sentinel == [hi |-> SentinelHi, lo |-> SentinelLo]

\* Validation::default(): validate_exp = true with a leeway of 60 seconds
Leeway == 60

\* the instants of the model: MaxTicks ticks from the start, and as many after
\* a sleep of Leeway seconds
Instants == (0..MaxTicks) \cup ((Leeway * Res)..(Leeway * Res + MaxTicks))

\* DateTime::timestamp(): the whole seconds of an instant
timestamp(t) == t \div Res

\* const JWTCONFIG: OnceCell<JWTConfig> = OnceCell::new();
\* a const item is instantiated anew at every place that names it, so every
\* mention of JWTCONFIG is a fresh, empty cell
JWTCONFIG == None

\* OnceCell::get_or_init: the value of the cell after the call
get_or_init(cell, init) == IF cell = None THEN Some(init) ELSE cell

\* JWTConfig::default()
JWTConfigDefault == [secret |-> DefaultSecret]

\* the secret sign and validate read:
\*   let binding = JWTCONFIG; binding.get_or_init(|| JWTConfig::default()).secret
ConfigSecret == get_or_init(JWTCONFIG, JWTConfigDefault)[1].secret

\* encode, were the exp field left out of the serialized payload
encode_without_exp(jwt, key) == [payload |-> [exp |-> Sentinel, claims |-> jwt.claims], key |-> key]

\* jsonwebtoken::encode: the payload (the serialized Jwt) and its HMAC, which
\* is identified by the key and the payload it was computed over
encode(jwt, key) == [payload |-> jwt, key |-> key]

\* a text that is no token at all
Malformed == [malformed |-> TRUE]

\* decode, were the leeway of the validation 0
decode_without_leeway(token, key, t) ==
    IF token = Malformed THEN Err("InvalidToken")
    ELSE IF token.key # key THEN Err("InvalidSignature")
    ELSE IF Lt(token.payload.exp, I64(timestamp(t))) THEN Err("ExpiredSignature")
    ELSE Ok(token.payload)

\* jsonwebtoken::decode under Validation::default(): the signature, then the
\* exp claim against the clock with the leeway, then the claims
decode(token, key, t) ==
    IF token = Malformed THEN Err("InvalidToken")
    ELSE IF token.key # key THEN Err("InvalidSignature")
    ELSE IF Lt(token.payload.exp, I64(timestamp(t) - Leeway)) THEN Err("ExpiredSignature")
    ELSE Ok(token.payload)

\* Jwt::new
new(claims) == [exp |-> Sentinel, claims |-> claims]

\* Jwt::new_with_exp at instant t
new_with_exp(claims, duration, t) == [exp |-> I64(timestamp(t + duration)), claims |-> claims]

\* is_expired, were the comparison >= in place of >
is_expired_at_exp(jwt, t) == ~Lt(I64(timestamp(t)), jwt.exp)

\* Jwt::is_expired at instant t
is_expired(jwt, t) == Gt(I64(timestamp(t)), jwt.exp)

\* Jwt::sign
sign(jwt) ==
    IF jwt.claims = BadClaims THEN Err("Json") ELSE Ok(encode(jwt, ConfigSecret))

\* the last second OffsetDateTime holds, 9999-12-31T23:59:59Z
TimestampMax == [hi |-> 253402, lo |-> 300799]
\* the second after it
TimestampOver == [hi |-> 253402, lo |-> 300800]

\* OffsetDateTime::from_unix_timestamp(exp), for the exp >= 0 of the model
from_unix_timestamp(exp) ==
    IF Gt(exp, TimestampMax) THEN Err("ComponentRange") ELSE Ok(exp)

\* the cookie names of the model
CookieNames == {"jwt", "session"}

\* as_cookie, were the expiry set whatever client_exp is
as_cookie_always_expires(jwt, name, client_exp) ==
    LET value == sign(jwt)
        expires == from_unix_timestamp(jwt.exp)
    IN IF ~value.ok THEN value
       ELSE IF ~expires.ok THEN expires
       ELSE Ok([name |-> name, value |-> value.v, expires |-> Some(expires.v)])

\* jwt.as_cookie(name, client_exp): the name, the value and the expiry of the
\* CookieBuilder
as_cookie(jwt, name, client_exp) ==
    LET value == sign(jwt)
        expires == from_unix_timestamp(jwt.exp)
    IN IF ~value.ok THEN value
       ELSE IF ~client_exp
       THEN Ok([name |-> name, value |-> value.v, expires |-> None])
       ELSE IF ~expires.ok THEN expires
       ELSE Ok([name |-> name, value |-> value.v, expires |-> Some(expires.v)])

\* Jwt::validate at instant t
validate(token, t) == decode(token, ConfigSecret, t)

JwtInit ==
    /\ now = 0
    /\ setCalls = <<>>
    /\ tok = None
    /\ made = None
    /\ signed = None
    /\ op = "start"
    /\ arg = None
    /\ keyUsed = None
    /\ ret = None

\* time passes: one tick, or a sleep of Leeway seconds
Tick ==
    /\ \E dt \in {1, Leeway * Res} :
        /\ now + dt \in Instants
        /\ now' = now + dt
    /\ op' = "tick"
    /\ arg' = None
    /\ keyUsed' = None
    /\ ret' = None
    /\ UNCHANGED <<setCalls, tok, made, signed>>
    /\ UNCHANGED <<tplVars, resVars>>

\* JWTConfig::set_static(secret): initialises a fresh JWTCONFIG and drops it
SetStatic ==
    /\ Len(setCalls) < MaxSetCalls
    /\ \E s \in Secrets :
        /\ setCalls' = Append(setCalls, s)
        /\ ret' = get_or_init(JWTCONFIG, [secret |-> s])
    /\ op' = "set_static"
    /\ arg' = None
    /\ keyUsed' = None
    /\ UNCHANGED <<now, tok, made, signed>>
    /\ UNCHANGED <<tplVars, resVars>>

\* let t = Jwt::new(c)
New ==
    /\ \E c \in Payloads :
        /\ tok' = Some(new(c))
        /\ made' = Some([kind |-> "new", d |-> 0, due |-> 0])
    /\ op' = "new"
    /\ arg' = None
    /\ keyUsed' = None
    /\ ret' = tok'
    /\ UNCHANGED <<now, setCalls, signed>>
    /\ UNCHANGED <<tplVars, resVars>>

\* let t = Jwt::new_with_exp(c, d)
NewWithExp ==
    /\ \E c \in Payloads, d \in 0..MaxDur :
        /\ tok' = Some(new_with_exp(c, d, now))
        /\ made' = Some([kind |-> "new_with_exp", d |-> d, due |-> now + d])
    /\ op' = "new_with_exp"
    /\ arg' = None
    /\ keyUsed' = None
    /\ ret' = tok'
    /\ UNCHANGED <<now, setCalls, signed>>
    /\ UNCHANGED <<tplVars, resVars>>

\* let t = Jwt { exp, claims }, the fields being public
Struct ==
    /\ \E c \in Claims, e \in {TimestampMax, TimestampOver} :
        tok' = Some([exp |-> e, claims |-> c])
    /\ made' = Some([kind |-> "struct", d |-> 0, due |-> 0])
    /\ op' = "struct"
    /\ arg' = None
    /\ keyUsed' = None
    /\ ret' = tok'
    /\ UNCHANGED <<now, setCalls, signed>>
    /\ UNCHANGED <<tplVars, resVars>>

\* t.as_cookie(name, client_exp)
AsCookie ==
    /\ tok # None
    /\ \E name \in CookieNames, client_exp \in BOOLEAN :
        /\ arg' = Some([name |-> name, client_exp |-> client_exp])
        /\ ret' = as_cookie(tok[1], name, client_exp)
    /\ op' = "as_cookie"
    /\ keyUsed' = Some(ConfigSecret)
    /\ UNCHANGED <<now, setCalls, tok, made, signed>>
    /\ UNCHANGED <<tplVars, resVars>>

\* t.is_expired()
IsExpired ==
    /\ tok # None
    /\ op' = "is_expired"
    /\ arg' = None
    /\ keyUsed' = None
    /\ ret' = Some(is_expired(tok[1], now))
    /\ UNCHANGED <<now, setCalls, tok, made, signed>>
    /\ UNCHANGED <<tplVars, resVars>>

\* the configured secret of the process, as its application set it: the first
\* set_static, None while there was none
Configured == IF setCalls = <<>> THEN None ELSE Some(setCalls[1])

\* jwt.sign() on a Jwt a handler has just constructed; the text goes to the
\* client, and the model keeps with it the Jwt it was made of, how that was
\* constructed and the configuration of the process that signed it
SignOf(jwt, kind, d) ==
    /\ op' = "sign"
    /\ arg' = None
    /\ keyUsed' = Some(ConfigSecret)
    /\ ret' = sign(jwt)
    /\ signed' = IF ret'.ok
                 THEN Some([text |-> ret'.v, of |-> jwt, kind |-> kind, d |-> d,
                            cfg |-> Configured])
                 ELSE signed
    /\ UNCHANGED <<now, setCalls, tok, made>>
    /\ UNCHANGED <<tplVars, resVars>>

\* Jwt::new(c).sign() and Jwt::new_with_exp(c, d).sign()
Sign ==
    \/ \E c \in Claims : SignOf(new(c), "new", 0)
    \/ \E c \in Claims, d \in 0..MaxDur : SignOf(new_with_exp(c, d, now), "new_with_exp", d)

\* the texts a client may send: the token in flight, its payload under the MAC
\* of any other key, and a text that is no token
Inbound ==
    (IF signed = None THEN {}
     ELSE {encode(signed[1].text.payload, k) : k \in Secrets \cup {signed[1].text.key}})
    \cup {Malformed}

\* Jwt::validate(text)
Validate ==
    /\ \E text \in Inbound :
        /\ arg' = Some(text)
        /\ ret' = validate(text, now)
    /\ op' = "validate"
    /\ keyUsed' = Some(ConfigSecret)
    /\ UNCHANGED <<now, setCalls, tok, made, signed>>
    /\ UNCHANGED <<tplVars, resVars>>

\* the process restarts: its configuration is gone, the tokens in flight are not
Restart ==
    /\ setCalls # <<>>
    /\ setCalls' = <<>>
    /\ op' = "start"
    /\ arg' = None
    /\ keyUsed' = None
    /\ ret' = None
    /\ UNCHANGED <<now, tok, made, signed>>
    /\ UNCHANGED <<tplVars, resVars>>

(***************************************************************************)
(* template.rs                                                             *)
(***************************************************************************)
\* the request guard types T of the model; a value is its serialized JSON text
Types == {"OptUser", "Rating"}
\* the values req.guard::<T>() can succeed with
Extracted(ty) == IF ty = "OptUser" THEN {"\"Justin\""} ELSE {"100"}
\* T::default()
Default(ty) == IF ty = "OptUser" THEN "null" ELSE "0"

\* the providers an application registers: register::<T>(name)
Providers ==
    { [ty |-> "OptUser", name |-> "user"],
      [ty |-> "Rating", name |-> "rating"],
      [ty |-> "Rating", name |-> "user"] }

Registries == UNION { [1..n -> Providers] : n \in 0..MaxProviders }

\* the outcomes of req.guard::<T>().await
Outcomes(ty) ==
    { [kind |-> "Success", v |-> v] : v \in Extracted(ty) }
    \cup { [kind |-> "Error", v |-> "-"], [kind |-> "Forward", v |-> "-"] }

\* success_or_else, were the fallback left out of the context
guard_dropped(ty, outcome) == IF outcome.kind = "Success" THEN outcome.v ELSE "-"

\* outcome.success_or_else(T::default).unwrap_or_else(|e| e)
guard(ty, outcome) == IF outcome.kind = "Success" THEN outcome.v ELSE Default(ty)

\* tera::Context::new()
EmptyContext == [k \in {} |-> ""]

\* insert, were an entry already under the name kept
insert_keeps(ctx, name, value) ==
    [k \in DOMAIN ctx \cup {name} |-> IF k \in DOMAIN ctx THEN ctx[k] ELSE value]

\* insert, were the handler's future dropped before its guard resolved
insert_lost(ctx, name, value) == ctx

\* tera::Context::insert
insert(ctx, name, value) ==
    [k \in DOMAIN ctx \cup {name} |-> IF k = name THEN value ELSE ctx[k]]

\* extend, were an entry the context already has kept
extend_keeps(ctx, source) ==
    [k \in DOMAIN ctx \cup DOMAIN source |-> IF k \in DOMAIN ctx THEN ctx[k] ELSE source[k]]

\* tera::Context::extend: the entries of source replace those of ctx
extend(ctx, source) ==
    [k \in DOMAIN ctx \cup DOMAIN source |-> IF k \in DOMAIN source THEN source[k] ELSE ctx[k]]

\* the templates Tera::new(dir) loaded, with the variables each one uses
Loaded == {"index.html", "static.html"}
Uses(path) == IF path = "index.html" THEN {"user"} ELSE {}

\* tera.render(path, ctx): the render engine
render(path, ctx) ==
    IF path \in Loaded /\ Uses(path) \subseteq DOMAIN ctx
    THEN Ok([path |-> path, ctx |-> ctx])
    ELSE Err("tera")

\* the Template values of the routed handlers: Template::render(path, data),
\* whose context is Context::from_serialize(data)
TemplateValues ==
    { [path |-> "index.html", context |-> Ok([rating |-> "100"])],
      [path |-> "index.html", context |-> Ok([user |-> "\"guest\""])],
      [path |-> "static.html", context |-> Ok(EmptyContext)],
      [path |-> "static.html", context |-> Err("serialize")],
      [path |-> "nope.html", context |-> Ok(EmptyContext)] }

\* Status::InternalServerError
InternalServerError == 500

Renderers == 1..MaxRenderers

\* the state before the rocket is built, for a TemplateConfig with no provider
TplIdle ==
    /\ registry = <<>>
    /\ attached = FALSE
    /\ managed = FALSE
    /\ phase = "build"
    /\ pcReq = "idle"
    /\ idx = 0
    /\ context = EmptyContext
    /\ outs = <<>>
    /\ runs = 0
    /\ handed = None
    /\ handed1 = None
    /\ cache = "uninit"
    /\ arc = None
    /\ pc = [r \in Renderers |-> "idle"]
    /\ tpl = [r \in Renderers |-> None]
    /\ order = <<>>
    /\ got = [r \in Renderers |-> None]
    /\ own = [r \in Renderers |-> None]
    /\ call = [r \in Renderers |-> None]
    /\ resp = [r \in Renderers |-> None]

\* TemplateConfig::new(dir).register::<T1>(n1).register::<T2>(n2)...
TplInit ==
    /\ registry \in Registries
    /\ attached = FALSE
    /\ managed = FALSE
    /\ phase = "build"
    /\ pcReq = "idle"
    /\ idx = 0
    /\ context = EmptyContext
    /\ outs = <<>>
    /\ runs = 0
    /\ handed = None
    /\ handed1 = None
    /\ cache = "uninit"
    /\ arc = None
    /\ pc = [r \in Renderers |-> "idle"]
    /\ tpl = [r \in Renderers |-> None]
    /\ order = <<>>
    /\ got = [r \in Renderers |-> None]
    /\ own = [r \in Renderers |-> None]
    /\ call = [r \in Renderers |-> None]
    /\ resp = [r \in Renderers |-> None]

\* on_ignite of the attached fairing: the rocket manages the Tera that loaded,
\* or the launch fails
OnIgnite ==
    /\ phase = "build"
    /\ \E loaded \in BOOLEAN :
        IF loaded
        THEN /\ attached' = TRUE
             /\ managed' = TRUE
             /\ phase' = "request"
        ELSE /\ phase' = "failed"
             /\ UNCHANGED <<attached, managed>>
    /\ UNCHANGED <<registry, pcReq, idx, context, outs, runs, handed, handed1, cache, arc,
                   pc, tpl, order, got, own, call, resp>>
    /\ UNCHANGED <<jwtVars, resVars>>

\* a rocket the fairing is not attached to: its application may manage a Tera
\* itself, and may run the on_request of the TemplateConfig from a fairing of
\* its own
Launch ==
    /\ phase = "build"
    /\ phase' = "request"
    /\ managed' \in BOOLEAN
    /\ attached' \in BOOLEAN
    /\ UNCHANGED <<registry, pcReq, idx, context, outs, runs, handed, handed1, cache, arc,
                   pc, tpl, order, got, own, call, resp>>
    /\ UNCHANGED <<jwtVars, resVars>>

\* on_request begins: let mut context = tera::Context::new(); and the loop
OnRequest ==
    /\ phase = "request"
    /\ attached
    /\ pcReq \in {"idle", "done"}
    /\ runs < MaxRuns
    /\ context' = EmptyContext
    /\ outs' = <<>>
    /\ idx' = 1
    /\ pcReq' = IF registry = <<>> THEN "publish" ELSE "guard"
    /\ UNCHANGED <<registry, attached, managed, phase, runs, handed, handed1, cache, arc,
                   pc, tpl, order, got, own, call, resp>>
    /\ UNCHANGED <<jwtVars, resVars>>

\* handler.handle(req, &mut context, name): req.guard::<T>() is called and the
\* future waits for it
HandleGuard ==
    /\ pcReq = "guard"
    /\ pcReq' = "await"
    /\ UNCHANGED <<registry, attached, managed, phase, idx, context, outs, runs, handed, handed1, cache, arc,
                   pc, tpl, order, got, own, call, resp>>
    /\ UNCHANGED <<jwtVars, resVars>>

\* the loop, were the context handed over from inside it
next_in_loop_early(i, n) == "publish"

\* for (handler, name) in &self.handlers: where on_request goes on after the
\* i-th of n handlers, the statement after the loop once the last has run
next_in_loop(i, n) == IF i = n THEN "publish" ELSE "guard"

\* the guard resolves: the value or the default is inserted under the name, and
\* the loop goes on to the next handler
HandleResume ==
    /\ pcReq = "await"
    /\ \E o \in Outcomes(registry[idx].ty) :
        /\ context' = insert(context, registry[idx].name, guard(registry[idx].ty, o))
        /\ outs' = Append(outs, o)
    /\ idx' = idx + 1
    /\ pcReq' = next_in_loop(idx, Len(registry))
    /\ UNCHANGED <<registry, attached, managed, phase, runs, handed, handed1, cache, arc,
                   pc, tpl, order, got, own, call, resp>>
    /\ UNCHANGED <<jwtVars, resVars>>

\* local_cache, were it to store f whatever the slot holds
local_cache_overwrites(slot, f) == f

\* Request::local_cache(f): the value of the slot after the call
local_cache(slot, f) == IF slot = "uninit" THEN f ELSE slot

\* req.local_cache(|| ArcSwapOption::new(Some(Arc::new(context))))
Publish ==
    /\ pcReq = "publish"
    /\ cache' = local_cache(cache, "full")
    /\ arc' = IF cache = "uninit" THEN Some([ctx |-> context, strong |-> 1]) ELSE arc
    /\ runs' = runs + 1
    /\ handed' = Some(context)
    /\ handed1' = IF runs = 0 THEN Some(context) ELSE handed1
    /\ pcReq' = "done"
    /\ UNCHANGED <<registry, attached, managed, phase, idx, context, outs,
                   pc, tpl, order, got, own, call, resp>>
    /\ UNCHANGED <<jwtVars, resVars>>

\* the request fairings have run: the request is routed and its handler's
\* response is responded
Route ==
    /\ phase = "request"
    /\ pcReq \in {"idle", "done"}
    /\ phase' = "respond"
    /\ pcReq' = "idle"
    /\ idx' = 0
    /\ context' = EmptyContext
    /\ outs' = <<>>
    /\ UNCHANGED <<registry, attached, managed, runs, handed, handed1, cache, arc,
                   pc, tpl, order, got, own, call, resp>>
    /\ UNCHANGED <<jwtVars, resVars>>

\* respond_to begins: req.local_cache(ArcSwapOption::empty), then the Tera of
\* req.rocket().state(), without which it returns the status.  The calls are
\* numbered in the order they begin.
Begin(r) ==
    /\ phase = "respond"
    /\ pc[r] = "idle"
    /\ IF r = 1 THEN TRUE ELSE pc[r - 1] # "idle"
    /\ cache' = local_cache(cache, "empty")
    /\ IF managed
       THEN /\ pc' = [pc EXCEPT ![r] = "swap"]
            /\ resp' = resp
       ELSE /\ pc' = [pc EXCEPT ![r] = "done"]
            /\ resp' = [resp EXCEPT ![r] = Some(Err(InternalServerError))]
    /\ UNCHANGED <<registry, attached, managed, phase, pcReq, idx, context, outs, runs, handed, handed1,
                   arc, tpl, order, got, own, call>>
    /\ UNCHANGED <<jwtVars, resVars>>

\* ArcSwapOption::swap, were it a load that leaves the cell as it is
swap_keeps(cell, val) == cell

\* ArcSwapOption::swap(val): the content of the cell after the call
swap(cell, val) == val

\* context.swap(None): the call takes what the cell holds
Swap(r) ==
    /\ pc[r] = "swap"
    /\ got' = [got EXCEPT ![r] = IF cache = "full" THEN Some("arc") ELSE None]
    /\ cache' = swap(cache, "empty")
    /\ order' = Append(order, r)
    /\ pc' = [pc EXCEPT ![r] = "unwrap"]
    /\ UNCHANGED <<registry, attached, managed, phase, pcReq, idx, context, outs, runs, handed, handed1,
                   arc, tpl, own, call, resp>>
    /\ UNCHANGED <<jwtVars, resVars>>

\* Option::ok_or, were an absent context replaced by the default one
ok_or_default(opt, status) == IF opt = None THEN Ok(EmptyContext) ELSE Ok(opt[1])

\* Option::ok_or(status)
ok_or(opt, status) == IF opt = None THEN Err(status) ELSE Ok(opt[1])

\* Arc::try_unwrap(c).ok(): the context, when c is the only strong reference
try_unwrap(a) == IF a.strong = 1 THEN Some(a.ctx) ELSE None

\* .and_then(|c| Arc::try_unwrap(c).ok()).ok_or(Status::InternalServerError)?
TryUnwrap(r) ==
    /\ pc[r] = "unwrap"
    /\ LET taken == IF got[r] = None THEN None ELSE try_unwrap(arc[1])
           res == ok_or(taken, InternalServerError)
       IN /\ arc' = IF got[r] = None THEN arc
                    ELSE Some([arc[1] EXCEPT !.strong = arc[1].strong - 1])
          /\ IF res.ok
             THEN /\ own' = [own EXCEPT ![r] = Some(res.v)]
                  /\ pc' = [pc EXCEPT ![r] = "merge"]
                  /\ resp' = resp
             ELSE /\ own' = own
                  /\ pc' = [pc EXCEPT ![r] = "done"]
                  /\ resp' = [resp EXCEPT ![r] = Some(res)]
    /\ UNCHANGED <<registry, attached, managed, phase, pcReq, idx, context, outs, runs, handed, handed1,
                   cache, tpl, order, got, call>>
    /\ UNCHANGED <<jwtVars, resVars>>

\* map_err, were the error taken for a fault of the client
map_err_bad_request(res, status) == IF res.ok THEN res ELSE Err(400)

\* Result::map_err(|e| { error!("{e}"); status })
map_err(res, status) == IF res.ok THEN res ELSE Err(status)

\* self.context.map(|c| context.extend(c)).map_err(..)?, then
\* tera.render(&self.path, &context).map_err(..)?, then the HTML response.
\* self, the Template of the call, is first read here.
FinishWith(r, t) ==
    /\ pc[r] = "merge"
    /\ tpl' = [tpl EXCEPT ![r] = Some(t)]
    /\ LET data == map_err(t.context, InternalServerError)
       IN IF ~data.ok
          THEN /\ resp' = [resp EXCEPT ![r] = Some(data)]
               /\ call' = call
          ELSE LET merged == extend(own[r][1], data.v)
                   rendered == map_err(render(t.path, merged), InternalServerError)
               IN /\ call' = [call EXCEPT ![r] = Some([path |-> t.path, ctx |-> merged])]
                  /\ resp' = [resp EXCEPT ![r] =
                                Some(IF rendered.ok
                                     THEN Ok([status |-> 200, type |-> "HTML", body |-> rendered.v])
                                     ELSE rendered)]
    /\ pc' = [pc EXCEPT ![r] = "done"]
    /\ UNCHANGED <<registry, attached, managed, phase, pcReq, idx, context, outs, runs, handed, handed1,
                   cache, arc, order, got, own>>
    /\ UNCHANGED <<jwtVars, resVars>>

Finish(r) == \E t \in TemplateValues : FinishWith(r, t)

(***************************************************************************)
(* errors.rs                                                               *)
(***************************************************************************)
\* a value whose Serialize fails, such as a map whose keys are not strings
Unserializable == "unserializable"
\* the JSON values of the model, as their text
JsonValues == {"null", "\"taken\""}
\* the values handlers pass as `value: impl Serialize`
Inputs == JsonValues \cup {Unserializable}

\* serde_json::to_value(value); the error is kept as its text
to_value(value) ==
    IF value = Unserializable THEN Err("\"key must be a string\"") ELSE Ok(value)

\* Status::Conflict
Conflict == 409

\* the codes of the model for `status: impl Into<Option<Status>>`
Codes == {200, 404, Conflict}
Statuses == {None} \cup { Some(c) : c \in Codes }

\* the errors E of a Result<T, E> that json_err and json_err_map are called on
Errors == {"io"}
\* the closures f: FnOnce(E) -> S passed to json_err_map
Mappers == [Errors -> Inputs]

ResultValue(s, f, st) == [success |-> s, failure |-> f, status |-> st]

\* ResultValue::default() and the struct literals the public fields allow
ResultValues ==
    { ResultValue(s, f, st) :
        s \in {None} \cup { Some(v) : v \in JsonValues },
        f \in {None} \cup { Some(v) : v \in JsonValues },
        st \in Statuses }

\* Success, were the text of the serialization error left out
Success_without_error(value, status) ==
    LET json == to_value(value)
    IN IF json.ok
       THEN Ok(ResultValue(Some(json.v), None, status))
       ELSE Err(ResultValue(None, None, None))

\* ResultJson::Success(value, status)
Success(value, status) ==
    LET json == to_value(value)
    IN IF json.ok
       THEN Ok(ResultValue(Some(json.v), None, status))
       ELSE Err(ResultValue(None, Some(json.e), None))

\* ResultJson::Failure(value, status)
Failure(value, status) ==
    LET json == to_value(value)
    IN IF json.ok
       THEN Err(ResultValue(None, Some(json.v), status))
       ELSE Err(ResultValue(None, Some(json.e), None))

\* Result::unwrap_err, which panics on Ok
unwrap_err(res) == IF res.ok THEN [panic |-> TRUE] ELSE res.e

\* Result<T, E>::json_err(value, status)
json_err(self, value, status) ==
    IF self.ok THEN Ok(self.v) ELSE Err(unwrap_err(Failure(value, status)))

\* Option<T>::json_err(value, status)
json_err_opt(self, value, status) ==
    IF self # None THEN Ok(self[1]) ELSE Err(unwrap_err(Failure(value, status)))

\* Result<T, E>::json_err_map(f, status)
json_err_map(self, f, status) ==
    IF self.ok THEN Ok(self.v) ELSE Err(unwrap_err(Failure(f[self.e], status)))

\* unwrap_or, were the status of the value passed over
unwrap_or_else_only(opt, d) == d

\* Option::unwrap_or(d)
unwrap_or(opt, d) == IF opt = None THEN d ELSE opt[1]

\* <ResultValue as Responder>::respond_to: the status and the two members of
\* the JSON body (no body for the bare status), and the match arm taken
respond_to(v) ==
    IF v.success # None /\ v.failure = None
    THEN [status |-> unwrap_or(v.status, 200), body |-> <<v.success[1], "null">>,
          arm |-> "success"]
    ELSE IF v.success = None /\ v.failure # None
    THEN [status |-> unwrap_or(v.status, 500), body |-> <<"null", v.failure[1]>>,
          arm |-> "failure"]
    ELSE [status |-> Conflict, body |-> <<>>, arm |-> "other"]

ResInit ==
    /\ by = "none"
    /\ given = None
    /\ built = None
    /\ answer = None

\* the ResultValue a returned Result carries, if it carries one
Carried(res, fromOk) ==
    IF res.ok THEN (IF fromOk THEN Some(res.v) ELSE None) ELSE Some(res.e)

\* a handler returns ResultJson::Success(value, status)
MakeSuccess ==
    /\ \E value \in Inputs, status \in Statuses :
        /\ given' = Some([value |-> value, status |-> status])
        /\ built' = Carried(Success(value, status), TRUE)
    /\ by' = "Success"
    /\ answer' = None
    /\ UNCHANGED <<jwtVars, tplVars>>

\* a handler returns ResultJson::Failure(value, status)
MakeFailure ==
    /\ \E value \in Inputs, status \in Statuses :
        /\ given' = Some([value |-> value, status |-> status])
        /\ built' = Carried(Failure(value, status), TRUE)
    /\ by' = "Failure"
    /\ answer' = None
    /\ UNCHANGED <<jwtVars, tplVars>>

\* a handler calls json_err on a Result or on an Option; an Ok or a Some
\* passes through and there is no ResultValue
JsonErr ==
    /\ \E value \in Inputs, status \in Statuses :
        /\ given' = Some([value |-> value, status |-> status])
        /\ \/ \E self \in {Ok("t")} \cup { Err(e) : e \in Errors } :
                 built' = Carried(json_err(self, value, status), FALSE)
           \/ \E self \in {None, Some("t")} :
                 built' = Carried(json_err_opt(self, value, status), FALSE)
    /\ by' = "json_err"
    /\ answer' = None
    /\ UNCHANGED <<jwtVars, tplVars>>

\* a handler calls json_err_map on a Result
JsonErrMap ==
    /\ \E f \in Mappers, status \in Statuses :
        \E self \in {Ok("t")} \cup { Err(e) : e \in Errors } :
            /\ given' = Some([value |-> IF self.ok THEN "-" ELSE f[self.e],
                               status |-> status])
            /\ built' = Carried(json_err_map(self, f, status), FALSE)
    /\ by' = "json_err_map"
    /\ answer' = None
    /\ UNCHANGED <<jwtVars, tplVars>>

\* a handler builds the ResultValue from its public fields or its Default
Literal ==
    /\ \E v \in ResultValues : built' = Some(v)
    /\ by' = "literal"
    /\ given' = None
    /\ answer' = None
    /\ UNCHANGED <<jwtVars, tplVars>>

\* the ResultValue at hand is responded
Respond ==
    /\ built # None
    /\ answer = None
    /\ answer' = Some(respond_to(built[1]))
    /\ UNCHANGED <<by, given, built>>
    /\ UNCHANGED <<jwtVars, tplVars>>

(***************************************************************************)
(* Specifications                                                          *)
(***************************************************************************)
\* the template pipeline of one request
Init == TplInit /\ JwtInit /\ ResInit

Next ==
    \/ OnIgnite
    \/ Launch
    \/ OnRequest
    \/ HandleGuard
    \/ HandleResume
    \/ Publish
    \/ Route
    \/ \E r \in Renderers : Begin(r)
    \/ \E r \in Renderers : Swap(r)
    \/ \E r \in Renderers : TryUnwrap(r)
    \/ \E r \in Renderers : Finish(r)

Spec == Init /\ [][Next]_vars

InitJwt == JwtInit /\ TplIdle /\ ResInit

\* the token lifecycle of a process: configuration, signing, verification
NextJwt ==
    \/ Tick
    \/ SetStatic
    \/ Sign
    \/ Validate
    \/ Restart

SpecJwt == InitJwt /\ [][NextJwt]_vars

\* construction of a token, its expiry against the clock and its cookie
NextExp ==
    \/ Tick
    \/ New
    \/ NewWithExp
    \/ Struct
    \/ IsExpired
    \/ AsCookie

SpecExp == InitJwt /\ [][NextExp]_vars

\* result values are constructed and responded
NextRes ==
    \/ MakeSuccess
    \/ MakeFailure
    \/ JsonErr
    \/ JsonErrMap
    \/ Literal
    \/ Respond

SpecRes == InitJwt /\ [][NextRes]_vars

(***************************************************************************)
(* Claims about template.rs                                                *)
(***************************************************************************)
\* C1: of the respond_to calls that drain the slot of a request, in whatever
\* order their swap(None) and Arc::try_unwrap steps run, at most one is handed
\* the Arc by swap and at most one obtains the context; every other one
\* observes None and returns the status 500.
C1_AtMostOneDrain ==
    \A r1 \in Renderers, r2 \in Renderers :
        r1 # r2 =>
            /\ ~(got[r1] # None /\ got[r2] # None)
            /\ ~(own[r1] # None /\ own[r2] # None)
            /\ (own[r1] # None /\ pc[r2] = "done" /\ managed) => resp[r2] = Some(Err(InternalServerError))

\* C1 witness: the context was published once and two calls drained the slot;
\* one obtained the context, the other observed None and failed
C1_Witness ==
    /\ runs = 1
    /\ Len(order) >= 2
    /\ \E r1 \in Renderers, r2 \in Renderers :
        /\ r1 # r2
        /\ own[r1] # None
        /\ pc[r2] = "done"
        /\ got[r2] = None
        /\ own[r2] = None
        /\ resp[r2] = Some(Err(InternalServerError))

\* C2: after the one on_request of a request, whatever the registry holds, the
\* first drain returns exactly the context on_request handed to the cache and
\* every later drain returns absent.
C2_DrainTwice ==
    runs = 1 =>
        \A i \in 1..Len(order) :
            pc[order[i]] \in {"merge", "done"} =>
                IF i = 1 THEN own[order[i]] = handed ELSE own[order[i]] = None

\* C2 witness: two drains in sequence after a publish by a registry with
\* providers; the first returned the context, the second absent
C2_Witness ==
    /\ runs = 1
    /\ registry # <<>>
    /\ Len(order) = 2
    /\ pc[order[1]] = "done"
    /\ pc[order[2]] = "done"
    /\ own[order[1]] = handed
    /\ own[order[2]] = None

\* C3: a respond_to on a request with no context to drain (on_request never
\* ran, or an earlier drain took the context) returns the status 500 and does
\* not call the render engine.
C3_AbsentIsFault ==
    \A r \in Renderers :
        (pc[r] = "done" /\ (runs = 0 \/ (Len(order) > 0 /\ order[1] # r))) =>
            /\ resp[r] = Some(Err(InternalServerError))
            /\ call[r] = None

\* C3 witness: with a Tera managed and no on_request run, a respond_to returned
\* 500 without a render
C3_Witness ==
    /\ runs = 0
    /\ managed
    /\ pc[1] = "done"
    /\ order = <<1>>
    /\ resp[1] = Some(Err(InternalServerError))
    /\ call[1] = None

\* what provider j of the registry contributes, given the outcome of its guard
Contributed(j) ==
    IF outs[j].kind = "Success" THEN outs[j].v ELSE Default(registry[j].ty)

\* provider j is the last of the providers run so far to insert under its name
LastOfName(j) ==
    \A k \in (j + 1)..Len(outs) : registry[k].name # registry[j].name

\* C10: in on_request every provider run so far has its value under its name,
\* the default of its type when its guard did not succeed, and that value
\* depends on the outcome of its own guard alone; the context is handed to the
\* cache whatever the outcomes were.
C10_FallbackPerProvider ==
    /\ \A j \in 1..Len(outs) :
          LastOfName(j) =>
              /\ registry[j].name \in DOMAIN context
              /\ context[registry[j].name] = Contributed(j)
    /\ pcReq = "done" =>
          /\ Len(outs) = Len(registry)
          /\ handed = Some(context)
          /\ runs = 1 => (cache = "full" /\ arc[1].ctx = context)

\* C10 witness: a context was published in which one provider failed and holds
\* its default and another succeeded and holds its value
C10_Witness ==
    /\ pcReq = "done"
    /\ runs = 1
    /\ cache = "full"
    /\ \E j \in 1..Len(outs), k \in 1..Len(outs) :
        /\ registry[j].name # registry[k].name
        /\ outs[j].kind # "Success"
        /\ outs[k].kind = "Success"
        /\ arc[1].ctx[registry[j].name] = Default(registry[j].ty)
        /\ arc[1].ctx[registry[k].name] = outs[k].v

\* the names under which the providers run so far have inserted
NamesRun == { registry[i].name : i \in 1..Len(outs) }

\* C11: when two providers are registered under one name, the context holds
\* one entry for that name, the value of the later registered of the two that
\* have run, and an entry for nothing but the names of the providers run; the
\* run goes on to hand the context over as with distinct names.
C11_LaterProviderWins ==
    /\ DOMAIN context = NamesRun
    /\ \A j \in 1..Len(outs) : \A k \in (j + 1)..Len(outs) :
          (registry[j].name = registry[k].name /\ LastOfName(k)) =>
              context[registry[k].name] = Contributed(k)
    /\ (pcReq = "done" /\ Len(registry) = 2 /\ registry[1].name = registry[2].name) =>
          /\ Cardinality(DOMAIN context) = 1
          /\ handed = Some(context)

\* C11 witness: two providers of one name have run with different values, and
\* the context handed over holds the value of the second
C11_Witness ==
    /\ pcReq = "done"
    /\ Len(registry) = 2
    /\ registry[1].name = registry[2].name
    /\ Contributed(1) # Contributed(2)
    /\ context = [k \in {registry[2].name} |-> Contributed(2)]

\* the names of the registered providers
Names == { registry[i].name : i \in 1..Len(registry) }

\* C12: the cache is written once every provider has inserted and not before:
\* while the first run of on_request is under way the slot is not initialised,
\* and what the slot holds, what on_request hands over and what a respond_to
\* drains has an entry for every registered name.
C12_PublishedWhole ==
    /\ (phase = "request" /\ runs = 0) => (cache = "uninit" /\ arc = None)
    /\ cache = "full" => arc # None
    /\ arc # None => DOMAIN arc[1].ctx = Names
    /\ handed # None => DOMAIN handed[1] = Names
    /\ \A r \in Renderers : own[r] # None => DOMAIN own[r][1] = Names

\* C12 witness: a respond_to has drained the context of two providers of
\* different names and holds both entries
C12_Witness ==
    \E r \in Renderers :
        /\ own[r] # None
        /\ Len(registry) = 2
        /\ registry[1].name # registry[2].name
        /\ DOMAIN own[r][1] = {registry[1].name, registry[2].name}

\* the guard of provider k has been called in this run of on_request
Started(k) == k < idx \/ (k = idx /\ pcReq = "await")

\* provider j is waiting for its guard
Suspended(j) == j = idx /\ pcReq = "await"

\* the guard of provider j has resolved and its value is in the context
Completed(j) == j <= Len(outs) /\ registry[j].name \in DOMAIN context

\* the step in which the guard of provider k is called
HandleGuardOf(k) == idx = k /\ HandleGuard

\* C13 as stated: while a provider is suspended on its guard, a provider
\* registered later can start its extraction.
C13_LaterStartsWhileSuspended ==
    \A j \in 1..Len(registry) : \A k \in (j + 1)..Len(registry) :
        Suspended(j) => ENABLED HandleGuardOf(k)

\* C13: the providers are resolved one after another in registration order: a
\* provider's guard is called only when every provider registered before it
\* has completed and inserted its value, so at most one is suspended.
C13_OneAtATime ==
    \A k \in 1..Len(registry) :
        Started(k) => \A j \in 1..(k - 1) : Completed(j) /\ ~Suspended(j)

\* C13 witness: the second provider waits for its guard, the first completed
C13_Witness ==
    /\ Len(registry) = 2
    /\ Suspended(2)
    /\ Completed(1)

\* C14 as stated: when on_request has handed over two contexts before any
\* drain, the first drain returns the second of them.
C14_LastWriteWins ==
    (runs = 2 /\ order # <<>> /\ pc[order[1]] \in {"merge", "done"}) =>
        own[order[1]] = handed

\* C14: the first context handed to the cache stays: when on_request has
\* handed over two contexts before any drain, the slot holds the first and the
\* first drain returns the first.
C14_FirstWriteWins ==
    runs = 2 =>
        /\ cache = "full" => arc[1].ctx = handed1[1]
        /\ (order # <<>> /\ pc[order[1]] \in {"merge", "done"}) =>
              own[order[1]] = handed1

\* C14 witness: two different contexts were handed over and the first drain
\* has returned the first of them
C14_Witness ==
    /\ runs = 2
    /\ handed # handed1
    /\ order # <<>>
    /\ pc[order[1]] = "done"
    /\ own[order[1]] = handed1

\* the failure points of the respond_to call r that has returned
NoEngine(r) == ~managed
NoContext(r) == managed /\ own[r] = None
NoData(r) == tpl[r] # None /\ ~tpl[r][1].context.ok
NoRender(r) == call[r] # None /\ ~render(call[r][1].path, call[r][1].ctx).ok

\* C15: a respond_to that met one of its failure points (no managed Tera, no
\* context to drain, handler data that did not serialize, a render error) has
\* returned the status 500, the only error status there is, and a respond_to
\* that met none has returned the rendered HTML.
C15_EveryFailureIs500 ==
    \A r \in Renderers :
        pc[r] = "done" =>
            /\ resp[r] # None
            /\ (NoEngine(r) \/ NoContext(r) \/ NoData(r) \/ NoRender(r)) =>
                  resp[r] = Some(Err(500))
            /\ ~resp[r][1].ok => resp[r][1].e = 500
            /\ resp[r][1].ok =>
                  ~(NoEngine(r) \/ NoContext(r) \/ NoData(r) \/ NoRender(r))

\* C15 witness: one respond_to returned 500 for a render error of the engine
\* and another for the context that was no longer there
C15_Witness ==
    \E r1, r2 \in Renderers :
        /\ pc[r1] = "done" /\ NoRender(r1) /\ resp[r1] = Some(Err(500))
        /\ pc[r2] = "done" /\ NoContext(r2) /\ resp[r2] = Some(Err(500))

\* C18: the context given to the engine holds, for a key of the handler's
\* data, the value of the handler's data, also when a provider inserted under
\* that key, and for every other key of the drained context the value the
\* provider inserted.
C18_HandlerDataWins ==
    \A r \in Renderers :
        call[r] # None =>
            LET data == tpl[r][1].context.v
                drained == own[r][1]
                ctx == call[r][1].ctx
            IN /\ DOMAIN ctx = DOMAIN drained \cup DOMAIN data
               /\ \A k \in DOMAIN data : ctx[k] = data[k]
               /\ \A k \in DOMAIN drained \ DOMAIN data : ctx[k] = drained[k]

\* C18 witness: the handler's data and a provider both have the key "user"
\* with different values, another provider has "rating", and the engine was
\* given the handler's "user" and the provider's "rating"
C18_Witness ==
    \E r \in Renderers :
        /\ call[r] # None
        /\ DOMAIN own[r][1] = {"user", "rating"}
        /\ DOMAIN tpl[r][1].context.v = {"user"}
        /\ own[r][1]["user"] # tpl[r][1].context.v["user"]
        /\ call[r][1].ctx["user"] = tpl[r][1].context.v["user"]
        /\ call[r][1].ctx["rating"] = own[r][1]["rating"]

\* C19: once a respond_to has drained the context the slot is empty, however
\* that call ends, and every other respond_to that has returned returned 500;
\* a respond_to that returned for want of a managed Tera did not drain, and
\* the slot still holds the context on_request published.
C19_DrainConsumes ==
    \A r \in Renderers :
        /\ (got[r] # None \/ own[r] # None) =>
              /\ cache = "empty"
              /\ \A r2 \in Renderers \ {r} :
                    pc[r2] = "done" =>
                        (own[r2] = None /\ resp[r2] = Some(Err(InternalServerError)))
        /\ (pc[r] = "done" /\ ~managed) =>
              /\ resp[r] = Some(Err(InternalServerError))
              /\ got[r] = None
              /\ order = <<>>
              /\ runs >= 1 =>
                    (cache = "full" /\ arc = Some([ctx |-> handed1[1], strong |-> 1]))

\* C19 witness: a respond_to drained the context and failed on the handler's
\* data, and a respond_to after it found the slot empty and returned 500
C19_Witness ==
    \E r1, r2 \in Renderers :
        /\ pc[r1] = "done"
        /\ own[r1] # None
        /\ NoData(r1)
        /\ resp[r1] = Some(Err(InternalServerError))
        /\ order = <<r1, r2>>
        /\ pc[r2] = "done"
        /\ resp[r2] = Some(Err(InternalServerError))
        /\ cache = "empty"

\* a respond_to returned for want of a managed Tera and left the published
\* context in the slot
C19_LeftPopulated ==
    \E r \in Renderers :
        /\ pc[r] = "done"
        /\ ~managed
        /\ runs >= 1
        /\ cache = "full"

(***************************************************************************)
(* Claims about jwt.rs                                                     *)
(***************************************************************************)
\* the text validate was given carries the MAC of the secret validate used
CorrectlySigned == arg # None /\ arg[1] # Malformed /\ keyUsed = Some(arg[1].key)

\* validate was given the token in flight, as sign returned it
ValidatedSigned == op = "validate" /\ signed # None /\ arg = Some(signed[1].text)

\* the exp of a token is more than the leeway behind the clock
PastLeeway(jwt) == Lt(jwt.exp, I64(timestamp(now) - Leeway))

\* C4, as claimed: validate succeeds on every correctly signed token and
\* returns it, whatever the clock says about its exp.
C4_ValidateIgnoresExpiry ==
    (op = "validate" /\ CorrectlySigned) => ret = Ok(arg[1].payload)

\* C4, amended: validate rejects a correctly signed token exactly when its exp
\* is more than the 60 seconds of leeway behind the current time; every other
\* correctly signed token is returned unchanged, also when is_expired() is true.
C4_ValidateExpiryWithLeeway ==
    (op = "validate" /\ CorrectlySigned) =>
        IF PastLeeway(arg[1].payload)
        THEN ret = Err("ExpiredSignature")
        ELSE ret = Ok(arg[1].payload)

\* C4 witness: validate returned a token that is_expired() calls expired
C4_Witness ==
    /\ op = "validate"
    /\ CorrectlySigned
    /\ is_expired(arg[1].payload, now)
    /\ ret = Ok(arg[1].payload)

\* C5, as claimed: once set_static(S1) was called, every sign and validate of
\* the process keys the MAC with S1.
C5_FirstSecretUsed ==
    (op \in {"sign", "validate"} /\ setCalls # <<>>) => keyUsed = Some(setCalls[1])

\* C6, as claimed: while set_static was never called, sign and validate return
\* an error.
C6_NoSecretIsError ==
    (op \in {"sign", "validate"} /\ setCalls = <<>>) => ~ret.ok

\* C7, as claimed: a token signed by a process configured with S1 is rejected
\* by validate in a process configured with S2 # S1.
C7_OtherSecretRejected ==
    (/\ ValidatedSigned
     /\ signed[1].cfg # None
     /\ Configured # None
     /\ signed[1].cfg # Configured) => ~ret.ok

C9_Expiry ==
    /\ (tok # None /\ made[1].kind = "new_with_exp") =>
          /\ tok[1].exp.hi = 0
          /\ tok[1].exp.lo * Res <= made[1].due
          /\ made[1].due < (tok[1].exp.lo + 1) * Res
          /\ (made[1].d % Res = 0 =>
                tok[1].exp.lo = ((made[1].due - made[1].d) \div Res) + (made[1].d \div Res))
    /\ (tok # None /\ made[1].kind = "new") =>
          /\ tok[1].exp.hi = 4856
          /\ tok[1].exp.lo = 112000
    /\ (op = "is_expired" /\ made[1].kind = "new_with_exp") =>
          (ret[1] <=> (now \div Res) * Res > made[1].due)
    /\ (op = "is_expired" /\ made[1].kind = "new") => ret[1] = FALSE

\* C9 witness: is_expired() was true in the second after exp, for a duration
\* that is no whole number of seconds
C9_Witness ==
    /\ op = "is_expired"
    /\ made[1].kind = "new_with_exp"
    /\ made[1].d > 0
    /\ made[1].d % Res # 0
    /\ ret[1] = TRUE
    /\ now \div Res = tok[1].exp.lo + 1



\* C17: an as_cookie that returns a cookie returns it under the name given,
\* with the signed token as its value and with the exp of the token as its
\* expiry when client_exp is true, no expiry when it is false; when signing
\* fails it returns the error and no cookie, and it returns a cookie whenever
\* signing succeeds and the expiry is not asked for or is a date.
C17_Cookie ==
    op = "as_cookie" =>
        LET jwt == tok[1]
            a == arg[1]
            value == sign(jwt)
        IN /\ ~value.ok => ~ret.ok
           /\ ret.ok =>
                 /\ value.ok
                 /\ ret.v.name = a.name
                 /\ ret.v.value = value.v
                 /\ ret.v.value = encode(jwt, keyUsed[1])
                 /\ a.client_exp => ret.v.expires = Some(jwt.exp)
                 /\ ~a.client_exp => ret.v.expires = None
           /\ (value.ok /\ (~a.client_exp \/ ~Gt(jwt.exp, TimestampMax))) => ret.ok

\* C17 witness: as_cookie with client_exp returned a cookie that expires at
\* the exp of a token made by new_with_exp
C17_Witness ==
    /\ op = "as_cookie"
    /\ made[1].kind = "new_with_exp"
    /\ arg[1].client_exp
    /\ ret.ok
    /\ ret.v.name = arg[1].name
    /\ ret.v.expires = Some(tok[1].exp)

(***************************************************************************)
(* Claims about errors.rs                                                  *)
(***************************************************************************)
\* C16: the response of a ResultValue has the status 409 and no body when
\* neither member is set, whatever its status holds; its status or else 200
\* when only success is set; its status or else 500 when only failure is set.
C16_RespondByMembers ==
    answer # None =>
        LET v == built[1]
            a == answer[1]
        IN /\ (v.success = None /\ v.failure = None) =>
                 (a.status = 409 /\ a.body = <<>>)
           /\ (v.success # None /\ v.failure = None) =>
                 /\ a.status = (IF v.status = None THEN 200 ELSE v.status[1])
                 /\ a.body = <<v.success[1], "null">>
           /\ (v.success = None /\ v.failure # None) =>
                 /\ a.status = (IF v.status = None THEN 500 ELSE v.status[1])
                 /\ a.body = <<"null", v.failure[1]>>

\* C16 witness: a ResultValue with neither member and the status 404 was
\* responded with 409
C16_Witness ==
    /\ built = Some(ResultValue(None, None, Some(404)))
    /\ answer # None
    /\ answer[1].status = 409

\* the operations that construct a ResultValue
Constructors == {"Success", "Failure", "json_err", "json_err_map"}

\* C20 as stated: the response of a ResultValue made by a constructor never
\* has the status 409.
C20_Never409 ==
    (by \in Constructors /\ answer # None) => answer[1].status # Conflict

\* C20: a ResultValue made by a constructor has exactly one member set; when
\* the value did not serialize it is failure, holding the error text, with
\* the status unset; its response never comes from the arm for the other
\* combinations and has the status 409 only when that status was passed in.
C20_ExactlyOneMember ==
    (by \in Constructors /\ built # None) =>
        /\ (built[1].success = None) # (built[1].failure = None)
        /\ ~to_value(given[1].value).ok =>
              built = Some(ResultValue(None, Some(to_value(given[1].value).e), None))
        /\ answer # None =>
              /\ answer[1].arm # "other"
              /\ answer[1].status = Conflict =>
                    (given[1].status = Some(Conflict) /\ to_value(given[1].value).ok)

\* C20 witness: Success was given a value that does not serialize and the
\* status 404; the value made holds the error text and was responded with 500
C20_Witness ==
    /\ by = "Success"
    /\ given = Some([value |-> Unserializable, status |-> Some(404)])
    /\ built # None
    /\ built[1].failure # None
    /\ answer # None
    /\ answer[1].status = 500

====
